---- MODULE Spec2Model ----
(***************************************************************************)
(* A model of the go-usda client library (package usda): client            *)
(* construction, query-option encoding, request building, dispatch and     *)
(* the four operations with their five facade calls.                       *)
(*                                                                         *)
(* Text.  A Go string is a sequence of tokens.  A token is one character   *)
(* ("/", "?", "@", " ", "&", "=", ...), one percent-escape ("%40"), or a   *)
(* word of unreserved characters that the code only ever moves as a whole  *)
(* ("list", "api.nal.usda.gov", "demo123").  The empty string is << >>.    *)
(***************************************************************************)
EXTENDS Integers, Sequences, FiniteSets, TLC

VARIABLES
  apiKey,     \* the access key handed to NewClient
  client,     \* the *USDAclient handle, NoClient before construction
  panicked,   \* TRUE once NewClient has panicked
  wire,       \* the requests the transport (httpClient.Do) has been handed
  calls,      \* per caller: the state of its operation call
  qIn,        \* addQueryOptions: the arguments of the application
  qOut        \* addQueryOptions: its result, NoResult before it is applied

vars == <<apiKey, client, panicked, wire, calls, qIn, qOut>>

-----------------------------------------------------------------------------
(* Bounds *)

MaxSortLen == 2     \* longest Sort value of a USDAQueryOptions
MaxKeyLen == 3      \* longest access key handed to NewClient
NumCallers == 2     \* callers sharing one client handle

-----------------------------------------------------------------------------
(* Strings *)

NoErr == "nil"

\* F applied to the value of v, which is computed once
Bind(v, F(_)) == CHOOSE r \in {F(x) : x \in {v}} : TRUE

Take(s, n) == SubSeq(s, 1, n)
Drop(s, n) == SubSeq(s, n + 1, Len(s))

\* strings.Index / strings.LastIndex on tokens; 0 when absent
IndexOf(s, t) ==
  IF \E i \in 1..Len(s) : s[i] = t
  THEN CHOOSE i \in 1..Len(s) : s[i] = t /\ \A j \in 1..(i - 1) : s[j] # t
  ELSE 0

LastIndexOf(s, t) ==
  IF \E i \in 1..Len(s) : s[i] = t
  THEN CHOOSE i \in 1..Len(s) : s[i] = t /\ \A j \in (i + 1)..Len(s) : s[j] # t
  ELSE 0

RECURSIVE SeqsUpTo(_, _)
SeqsUpTo(S, n) ==
  IF n = 0 THEN {<< >>}
  ELSE LET shorter == SeqsUpTo(S, n - 1)
       IN shorter \cup {Append(s, c) : s \in shorter, c \in S}

RECURSIVE Flatten(_)
Flatten(ss) == IF ss = << >> THEN << >> ELSE Head(ss) \o Flatten(Tail(ss))

\* the characters that are not part of a word
Delims == {":", "/", "?", "@", " ", "%", "&", "=", "+"}
IsWord(t) == t \notin Delims

-----------------------------------------------------------------------------
(* strconv: decimal formatting and parsing *)

Digits == <<"0", "1", "2", "3", "4", "5", "6", "7", "8", "9">>

RECURSIVE FormatNat(_)
FormatNat(n) ==
  IF n < 10 THEN <<Digits[n + 1]>>
  ELSE FormatNat(n \div 10) \o <<Digits[(n % 10) + 1]>>

Itoa(n) == IF n < 0 THEN <<"-">> \o FormatNat(-n) ELSE FormatNat(n)

DigitVal(d) == CHOOSE v \in 0..9 : Digits[v + 1] = d

RECURSIVE ParseNat(_)
ParseNat(s) ==
  IF Len(s) = 1 THEN DigitVal(s[1])
  ELSE 10 * ParseNat(Take(s, Len(s) - 1)) + DigitVal(s[Len(s)])

Atoi(s) == IF Head(s) = "-" THEN -ParseNat(Tail(s)) ELSE ParseNat(s)

-----------------------------------------------------------------------------
(* net/url *)

NoUser == [isNil |-> TRUE, name |-> << >>]

EmptyURL ==
  [Scheme |-> << >>, User |-> NoUser, Host |-> << >>, Path |-> << >>,
   RawQuery |-> << >>, ForceQuery |-> FALSE]

\* getScheme: the index of the ":" that ends the scheme, 0 when the text has
\* no scheme, -1 when it starts with ":" (missing protocol scheme)
SchemeEnd(raw) ==
  LET c == IndexOf(raw, ":")
  IN IF c = 0 \/ \E j \in 1..(c - 1) : ~IsWord(raw[j]) THEN 0
     ELSE IF c = 1 THEN -1 ELSE c

\* unescape: a "%" that does not start a percent-escape is an EscapeError
BadEscape(s) == \E i \in 1..Len(s) : s[i] = "%"

\* validUserinfo: letters, digits and - . _ : ~ ! $ & ' ( ) * + , ; = % @
validUserinfo(s) == \A i \in 1..Len(s) : s[i] \notin {" ", "/", "?"}

\* unescape(host, encodeHost): a character that must be escaped in a host
BadHostChar(s) == \E i \in 1..Len(s) : s[i] \in {" ", "/", "?", "@"}

\* parseAuthority: [user@]host
parseAuthority(authority) ==
  LET i == LastIndexOf(authority, "@")
      host == Drop(authority, i)
      userinfo == Take(authority, i - 1)
  IN IF BadHostChar(host) THEN [err |-> "invalid character in host name"]
     ELSE IF BadEscape(host) THEN [err |-> "invalid URL escape"]
     ELSE IF i = 0 THEN [err |-> NoErr, User |-> NoUser, Host |-> host]
     ELSE IF ~validUserinfo(userinfo) THEN [err |-> "invalid userinfo"]
     ELSE IF BadEscape(userinfo) THEN [err |-> "invalid URL escape"]
     ELSE [err |-> NoErr, User |-> [isNil |-> FALSE, name |-> userinfo],
           Host |-> host]

\* url.Parse of a text without fragment: scheme, query, authority, path
parseText(raw) ==
  LET se == SchemeEnd(raw)
      scheme == IF se > 0 THEN Take(raw, se - 1) ELSE << >>
      afterScheme == IF se > 0 THEN Drop(raw, se) ELSE raw
      q == IndexOf(afterScheme, "?")
      force == q > 0 /\ q = Len(afterScheme)
      rest == IF q > 0 THEN Take(afterScheme, q - 1) ELSE afterScheme
      rawQuery == IF q > 0 THEN Drop(afterScheme, q) ELSE << >>
      slash == IndexOf(rest, "/")
      segment == IF slash > 0 THEN Take(rest, slash - 1) ELSE rest
      hasAuth == Len(rest) >= 2 /\ rest[1] = "/" /\ rest[2] = "/"
      afterSlashes == Drop(rest, 2)
      a == IndexOf(afterSlashes, "/")
      authority == IF a > 0 THEN Take(afterSlashes, a - 1) ELSE afterSlashes
      path == IF ~hasAuth THEN rest
              ELSE IF a > 0 THEN Drop(afterSlashes, a - 1) ELSE << >>
      auth == IF hasAuth THEN parseAuthority(authority)
              ELSE [err |-> NoErr, User |-> NoUser, Host |-> << >>]
  IN IF se = -1 THEN [err |-> "missing protocol scheme", url |-> EmptyURL]
     ELSE IF scheme = << >> /\ (rest = << >> \/ rest[1] # "/")
             /\ IndexOf(segment, ":") > 0
       THEN [err |-> "first path segment in URL cannot contain colon",
             url |-> EmptyURL]
     ELSE IF auth.err # NoErr THEN [err |-> auth.err, url |-> EmptyURL]
     ELSE IF BadEscape(path) THEN [err |-> "invalid URL escape", url |-> EmptyURL]
     ELSE [err |-> NoErr,
           url |-> [Scheme |-> scheme, User |-> auth.User, Host |-> auth.Host,
                    Path |-> path, RawQuery |-> rawQuery, ForceQuery |-> force]]

parseURL(rawURL) == Bind(rawURL, LAMBDA raw : parseText(raw))

\* escape(s, encodeUserPassword): "@" and "/" and ":" and " " are escaped
EscapeUser(s) ==
  Flatten([i \in 1..Len(s) |->
    IF s[i] = "@" THEN <<"%40">>
    ELSE IF s[i] = "/" THEN <<"%2F">>
    ELSE IF s[i] = ":" THEN <<"%3A">>
    ELSE IF s[i] = " " THEN <<"%20">>
    ELSE IF s[i] = "?" THEN <<"%3F">>
    ELSE <<s[i]>>])

\* EscapedPath: a path that is not validly encoded is escaped afresh
EscapePath(s) ==
  Flatten([i \in 1..Len(s) |->
    IF s[i] = " " THEN <<"%20">>
    ELSE IF s[i] = "?" THEN <<"%3F">>
    ELSE <<s[i]>>])

\* (*URL).String
URLString(u) ==
  LET hasAuthority == u.Scheme # << >> \/ u.Host # << >> \/ ~u.User.isNil
      path == EscapePath(u.Path)
  IN (IF u.Scheme # << >> THEN u.Scheme \o <<":">> ELSE << >>)
     \o (IF hasAuthority /\ (u.Host # << >> \/ u.Path # << >> \/ ~u.User.isNil)
         THEN <<"/", "/">> ELSE << >>)
     \o (IF hasAuthority /\ ~u.User.isNil
         THEN EscapeUser(u.User.name) \o <<"@">> ELSE << >>)
     \o (IF hasAuthority THEN u.Host ELSE << >>)
     \o (IF path # << >> /\ path[1] # "/" /\ u.Host # << >> THEN <<"/">> ELSE << >>)
     \o path
     \o (IF u.ForceQuery \/ u.RawQuery # << >> THEN <<"?">> \o u.RawQuery ELSE << >>)

\* QueryEscape: the escaping of a query key or value
QueryEscape(s) ==
  Flatten([i \in 1..Len(s) |->
    IF s[i] = " " THEN <<"+">>
    ELSE IF s[i] = "&" THEN <<"%26">>
    ELSE IF s[i] = "=" THEN <<"%3D">>
    ELSE IF s[i] = "+" THEN <<"%2B">>
    ELSE IF s[i] = "%" THEN <<"%25">>
    ELSE IF s[i] = "/" THEN <<"%2F">>
    ELSE IF s[i] = "?" THEN <<"%3F">>
    ELSE IF s[i] = "@" THEN <<"%40">>
    ELSE IF s[i] = ":" THEN <<"%3A">>
    ELSE <<s[i]>>])

\* QueryUnescape: the inverse reading, as url.ParseQuery applies it
QueryUnescape(s) ==
  [i \in 1..Len(s) |->
    IF s[i] = "+" THEN " "
    ELSE IF s[i] = "%26" THEN "&"
    ELSE IF s[i] = "%3D" THEN "="
    ELSE IF s[i] = "%2B" THEN "+"
    ELSE IF s[i] = "%25" THEN "%"
    ELSE IF s[i] = "%2F" THEN "/"
    ELSE IF s[i] = "%3F" THEN "?"
    ELSE IF s[i] = "%40" THEN "@"
    ELSE IF s[i] = "%3A" THEN ":"
    ELSE s[i]]

\* the keys of a url.Values in the order Encode writes them (sorted)
SortedKeys == <<"max", "offset", "sort">>

\* (url.Values).Encode: key=value pairs in key order, joined by "&"
RECURSIVE EncodeFrom(_, _)
EncodeFrom(v, k) ==
  IF k > Len(SortedKeys) THEN << >>
  ELSE LET key == SortedKeys[k]
           later == EncodeFrom(v, k + 1)
       IN IF key \notin DOMAIN v THEN later
          ELSE <<key, "=">> \o QueryEscape(v[key])
               \o (IF later = << >> THEN << >> ELSE <<"&">> \o later)

Encode(v) == EncodeFrom(v, 1)

\* url.ParseQuery: split at "&", each pair at its first "=", then unescape
RECURSIVE ParseQuery(_)
ParseQuery(q) ==
  IF q = << >> THEN << >>
  ELSE LET amp == IndexOf(q, "&")
           pair == IF amp > 0 THEN Take(q, amp - 1) ELSE q
           rest == IF amp > 0 THEN Drop(q, amp) ELSE << >>
           eq == IndexOf(pair, "=")
           key == IF eq > 0 THEN Take(pair, eq - 1) ELSE pair
           val == IF eq > 0 THEN Drop(pair, eq) ELSE << >>
       IN <<[key |-> QueryUnescape(key), value |-> QueryUnescape(val)]>>
          \o ParseQuery(rest)

-----------------------------------------------------------------------------
(* Client construction *)

entryPointURL == <<"api.nal.usda.gov", "/", "ndb", "/">>

NoClient == [isNil |-> TRUE]

\* NewClient: the default transport when none is given, the base URL parsed
\* from "https://" + apiKey + "@" + entryPointURL, a panic when it does not
\* parse; sent are the requests it hands to the transport (none)
NewClient(key, httpClient) ==
  LET hc == IF httpClient = "nil" THEN "http.DefaultClient" ELSE httpClient
  IN Bind(parseURL(<<"https", ":", "/", "/">> \o key \o <<"@">> \o entryPointURL),
          LAMBDA bURL :
            IF bURL.err # NoErr
            THEN [panic |-> TRUE, client |-> NoClient, sent |-> {}]
            ELSE [panic |-> FALSE, sent |-> {},
                  client |-> [isNil |-> FALSE, baseURL |-> bURL.url,
                              httpClient |-> hc]])

-----------------------------------------------------------------------------
(* Query options *)

NilOptions == [isNil |-> TRUE, Max |-> 0, Offset |-> 0, Sort |-> << >>]
Options(max, offset, sort) ==
  [isNil |-> FALSE, Max |-> max, Offset |-> offset, Sort |-> sort]

\* queryValues with the offset field written even when it is 0
queryValuesKeepOffset(opts) ==
  LET keys == (IF opts.Max # 0 THEN {"max"} ELSE {}) \cup {"offset"}
              \cup (IF opts.Sort # << >> THEN {"sort"} ELSE {})
  IN [k \in keys |->
       IF k = "max" THEN Itoa(opts.Max)
       ELSE IF k = "offset" THEN Itoa(opts.Offset)
       ELSE opts.Sort]

\* query.Values on a USDAQueryOptions: every field is tagged omitempty, so a
\* field holding its zero value is left out
queryValues(opts) ==
  LET keys == (IF opts.Max # 0 THEN {"max"} ELSE {})
              \cup (IF opts.Offset # 0 THEN {"offset"} ELSE {})
              \cup (IF opts.Sort # << >> THEN {"sort"} ELSE {})
  IN [k \in keys |->
       IF k = "max" THEN Itoa(opts.Max)
       ELSE IF k = "offset" THEN Itoa(opts.Offset)
       ELSE opts.Sort]

\* addQueryOptions gluing "?" and the query to the path itself
addQueryOptionsGlued(pathAPI, opts) ==
  IF opts.isNil THEN [path |-> pathAPI, err |-> NoErr]
  ELSE Bind(parseURL(pathAPI), LAMBDA u :
         IF u.err # NoErr THEN [path |-> pathAPI, err |-> u.err]
         ELSE [path |-> pathAPI \o <<"?">> \o Encode(queryValues(opts)),
               err |-> NoErr])

addQueryOptions(pathAPI, opts) ==
  IF opts.isNil THEN [path |-> pathAPI, err |-> NoErr]
  ELSE LET v == queryValues(opts)
       IN Bind(parseURL(pathAPI), LAMBDA u :
            IF u.err # NoErr THEN [path |-> pathAPI, err |-> u.err]
            ELSE [path |-> URLString([u.url EXCEPT !.RawQuery = Encode(v)]),
                  err |-> NoErr])

-----------------------------------------------------------------------------
(* encoding/json *)

\* A []string: nil, or its elements
NilSlice == [isNil |-> TRUE, elems |-> << >>]
Slice(elems) == [isNil |-> FALSE, elems |-> elems]

Field(name, key, kind, omitempty) ==
  [name |-> name, key |-> key, kind |-> kind, omitempty |-> omitempty]

\* The struct types with their json tags.  The four request parameter types
\* are given in full.  Each response type is given by two of its leaf fields,
\* a string and an int (two ints for USDAFoodsReport), its nesting flattened.
Fields(type) ==
  CASE type = "USDAListReqParams" ->
         <<Field("Lt", "lt", "string", TRUE)>>
    [] type = "USDANutrientsReqParams" ->
         <<Field("Fg", "fg", "slice", TRUE),
           Field("Ndbno", "ndbno", "string", TRUE),
           Field("NutrientsID", "nutrients", "slice", FALSE),
           Field("Subset", "subset", "string", TRUE)>>
    [] type = "USDAFoodsReqParams" ->
         <<Field("Ndbno", "ndbno", "slice", FALSE),
           Field("Type", "type", "string", TRUE)>>
    [] type = "USDASearchReqParams" ->
         <<Field("Q", "q", "string", TRUE),
           Field("Ds", "ds", "string", TRUE),
           Field("Fg", "fg", "string", TRUE)>>
    [] type = "USDAList" ->
         <<Field("Lt", "lt", "string", FALSE),
           Field("Total", "total", "int", FALSE)>>
    [] type = "USDANutrientReport" ->
         <<Field("Sr", "sr", "string", FALSE),
           Field("Total", "total", "int", FALSE)>>
    [] type = "USDAFoodsReport" ->
         <<Field("Count", "count", "int", FALSE),
           Field("Notfound", "notfound", "int", FALSE)>>
    [] type = "USDASearch" ->
         <<Field("Q", "q", "string", FALSE),
           Field("Total", "total", "int", FALSE)>>

FieldNames(type) == {Fields(type)[k].name : k \in 1..Len(Fields(type))}
FieldOf(type, name) ==
  Fields(type)[CHOOSE k \in 1..Len(Fields(type)) : Fields(type)[k].name = name]

ZeroOf(kind) ==
  IF kind = "string" THEN << >> ELSE IF kind = "slice" THEN NilSlice ELSE 0

\* var v T: the zero value of a struct type
ZeroValue(type) ==
  [type |-> type, v |-> [n \in FieldNames(type) |-> ZeroOf(FieldOf(type, n).kind)]]

\* A *T handed to an operation: nil, or a pointer to a struct
NilPointer(type) == [isNil |-> TRUE, type |-> type, v |-> ZeroValue(type).v]
Pointer(val) == [isNil |-> FALSE, type |-> val.type, v |-> val.v]

\* The text of a JSON string: the encoder writes "<" as an escape (u003c)
\* and an invalid UTF-8 byte (xFF) as the escape of U+FFFD (ufffd)
jsonEncodeString(s) ==
  [i \in 1..Len(s) |->
    IF s[i] = "<" THEN "u003c" ELSE IF s[i] = "xFF" THEN "ufffd" ELSE s[i]]

\* The decoder reads an escape as the character it names
jsonDecodeString(t) ==
  [i \in 1..Len(t) |->
    IF t[i] = "u003c" THEN "<" ELSE IF t[i] = "ufffd" THEN "U+FFFD" ELSE t[i]]

JNull == [t |-> "null"]
JString(text) == [t |-> "string", text |-> text]
JNumber(n) == [t |-> "number", n |-> n]
JArray(texts) == [t |-> "array", texts |-> texts]

\* isEmptyValue: what omitempty leaves out
isEmptyValue(kind, x) ==
  IF kind = "string" THEN x = << >>
  ELSE IF kind = "slice" THEN Len(x.elems) = 0
  ELSE x = 0

toJSON(kind, x) ==
  IF kind = "string" THEN JString(jsonEncodeString(x))
  ELSE IF kind = "slice"
    THEN IF x.isNil THEN JNull
         ELSE JArray([i \in 1..Len(x.elems) |-> jsonEncodeString(x.elems[i])])
  ELSE JNumber(x)

\* marshal with every field treated as omitempty
marshalOmitAll(p) ==
  IF p.isNil THEN [kind |-> "null"]
  ELSE LET F == Fields(p.type)
       IN [kind |-> "object",
           members |-> Flatten([k \in 1..Len(F) |->
             IF isEmptyValue(F[k].kind, p.v[F[k].name])
             THEN << >>
             ELSE <<[key |-> F[k].key,
                     value |-> toJSON(F[k].kind, p.v[F[k].name])]>>])]

\* json.Marshal of a *T: null for a nil pointer, else the members in field
\* order, an omitempty field left out when empty
marshal(p) ==
  IF p.isNil THEN [kind |-> "null"]
  ELSE LET F == Fields(p.type)
       IN [kind |-> "object",
           members |-> Flatten([k \in 1..Len(F) |->
             IF F[k].omitempty /\ isEmptyValue(F[k].kind, p.v[F[k].name])
             THEN << >>
             ELSE <<[key |-> F[k].key,
                     value |-> toJSON(F[k].kind, p.v[F[k].name])]>>])]

\* whether a JSON value can be stored in a field of the kind
Fits(kind, j) ==
  \/ j.t = "null"
  \/ kind = "string" /\ j.t = "string"
  \/ kind = "slice" /\ j.t = "array"
  \/ kind = "int" /\ j.t = "number"

fromJSON(kind, j, old) ==
  IF j.t = "null" THEN (IF kind = "slice" THEN NilSlice ELSE old)
  ELSE IF kind = "string" THEN jsonDecodeString(j.text)
  ELSE IF kind = "slice"
    THEN Slice([i \in 1..Len(j.texts) |-> jsonDecodeString(j.texts[i])])
  ELSE j.n

\* json.Unmarshal / (*Decoder).Decode into dest: a body that is no JSON
\* leaves dest alone; in an object every member that fits its field is
\* stored, a member that does not fit is skipped and reported as an
\* UnmarshalTypeError once the whole object has been read
unmarshal(body, dest) ==
  IF body.kind = "empty" THEN [val |-> dest, err |-> "io.EOF"]
  ELSE IF body.kind = "invalid" THEN [val |-> dest, err |-> "json.SyntaxError"]
  ELSE IF body.kind = "null" THEN [val |-> dest, err |-> NoErr]
  ELSE LET m == body.members
           Has(key) == \E k \in 1..Len(m) : m[k].key = key
           Get(key) == m[CHOOSE k \in 1..Len(m) : m[k].key = key].value
           fit(n) == Fits(FieldOf(dest.type, n).kind, Get(FieldOf(dest.type, n).key))
       IN [val |-> [type |-> dest.type,
                    v |-> [n \in FieldNames(dest.type) |->
                            LET f == FieldOf(dest.type, n)
                            IN IF Has(f.key) /\ fit(n)
                               THEN fromJSON(f.kind, Get(f.key), dest.v[n])
                               ELSE dest.v[n]]],
           err |-> IF \E n \in FieldNames(dest.type) :
                        Has(FieldOf(dest.type, n).key) /\ ~fit(n)
                   THEN "json.UnmarshalTypeError" ELSE NoErr]

-----------------------------------------------------------------------------
(* Request building and dispatch *)

NoRequest == [isNil |-> TRUE]
NoResponse == [isNil |-> TRUE]

\* newRequest: the body is the JSON encoding of data, the target the base
\* URL's text followed by pathAPI, the method POST, the content type JSON
newRequest(c, pathAPI, data) ==
  Bind(URLString(c.baseURL) \o pathAPI, LAMBDA finalPathURL :
    LET bStream == marshal(data)
    IN Bind(parseURL(finalPathURL), LAMBDA u :
         IF u.err # NoErr THEN [req |-> NoRequest, err |-> u.err]
         ELSE [req |-> [isNil |-> FALSE, Method |-> "POST", URL |-> finalPathURL,
                        Header |-> ("Content-Type" :> "application/json"),
                        Body |-> bStream, ctx |-> "context.Background"],
               err |-> NoErr]))

\* do without the look at the context
doTransportErrorOnly(ctxErr, tr, v) ==
  IF tr.err # NoErr
  THEN [resp |-> NoResponse, err |-> tr.err, v |-> v, closes |-> 0,
        events |-> << >>]
  ELSE Bind(unmarshal(tr.resp.Body, v), LAMBDA d :
         [resp |-> tr.resp, err |-> d.err, v |-> d.val, closes |-> 1,
          events |-> <<"decode", "close">>])

\* do reporting every done context as a passed deadline
doDeadlineOnly(ctxErr, tr, v) ==
  IF tr.err # NoErr
  THEN [resp |-> NoResponse,
        err |-> IF ctxErr # "live" THEN "context.DeadlineExceeded" ELSE tr.err,
        v |-> v, closes |-> 0, events |-> << >>]
  ELSE Bind(unmarshal(tr.resp.Body, v), LAMBDA d :
         [resp |-> tr.resp, err |-> d.err, v |-> d.val, closes |-> 1,
          events |-> <<"decode", "close">>])

\* do closing the body only after a decode that succeeded
doCloseOnSuccess(ctxErr, tr, v) ==
  IF tr.err # NoErr
  THEN [resp |-> NoResponse, err |-> IF ctxErr # "live" THEN ctxErr ELSE tr.err,
        v |-> v, closes |-> 0, events |-> << >>]
  ELSE Bind(unmarshal(tr.resp.Body, v), LAMBDA d :
         [resp |-> tr.resp, err |-> d.err, v |-> d.val,
          closes |-> IF d.err = NoErr THEN 1 ELSE 0,
          events |-> IF d.err = NoErr THEN <<"decode", "close">> ELSE <<"decode">>])

\* do, from the return of httpClient.Do on: tr is what the transport
\* returned, ctxErr the context's state (its Err(), "live" while not done),
\* v the destination.  A transport error gives the context's error when the
\* context is done and the transport's otherwise; a response is decoded into
\* v and its body closed by the deferred Close.
do(ctxErr, tr, v) ==
  IF tr.err # NoErr
  THEN [resp |-> NoResponse, err |-> IF ctxErr # "live" THEN ctxErr ELSE tr.err,
        v |-> v, closes |-> 0, events |-> << >>]
  ELSE Bind(unmarshal(tr.resp.Body, v), LAMBDA d :
         [resp |-> tr.resp, err |-> d.err, v |-> d.val, closes |-> 1,
          events |-> <<"decode", "close">>])

-----------------------------------------------------------------------------
(* Operation calls *)

Callers == 1..NumCallers

NoTransport == [isNil |-> TRUE]
NoReturn == [isNil |-> TRUE]

\* A caller before it calls: its context may already be done
IdleCall(ctx) ==
  [pc |-> "idle", via |-> "none", op |-> "none", params |-> NilPointer("USDAListReqParams"),
   opts |-> NilOptions, ctx |-> ctx, ctxAtResp |-> "none", req |-> NoRequest,
   tr |-> NoTransport, resp |-> NoResponse, closes |-> 0, ret |-> NoReturn,
   log |-> << >>]

\* The response type an operation decodes into
ResponseType(op) ==
  CASE op = "GetList" -> "USDAList"
    [] op = "GetUSDANutrientReport" -> "USDANutrientReport"
    [] op = "GetUSDAFoodsReportV2" -> "USDAFoodsReport"
    [] op = "GetUSDASearch" -> "USDASearch"

\* return with the error wrapped in one of the package's own
ReturnWrapped(v, err) ==
  [isNil |-> FALSE, val |-> v,
   err |-> IF err = NoErr THEN NoErr ELSE "usda: request failed"]

\* return v, err: what an operation hands back
Return(v, err) == [isNil |-> FALSE, val |-> v, err |-> err]

\* The body every operation shares after its endpoint path is known:
\*   if err != nil { return v, err }         (the path's error, when it has one)
\*   req, err := c.newRequest(endQuery, params); if err != nil { return v, err }
\*   _, err = c.do(ctx, req, &v)             (up to the call of httpClient.Do:
\*                                            the request now carries ctx)
\* endQuery is [path, err]; events are the steps taken before newRequest.
operation(call, via, op, params, opts, endQueryResult, events) ==
  LET v == ZeroValue(ResponseType(op))
      entered == [call EXCEPT !.via = via, !.op = op, !.params = params,
                              !.opts = opts]
  IN Bind(endQueryResult, LAMBDA endQuery :
       IF endQuery.err # NoErr
       THEN [entered EXCEPT !.pc = "returned", !.ret = Return(v, endQuery.err),
                            !.log = events \o <<"return">>]
       ELSE Bind(newRequest(client, endQuery.path, params), LAMBDA r :
         IF r.err # NoErr
         THEN [entered EXCEPT !.pc = "returned", !.ret = Return(v, r.err),
                              !.log = events \o <<"request", "return">>]
         ELSE [entered EXCEPT !.pc = "sent",
                              !.req = [r.req EXCEPT !.ctx = "ctx"],
                              !.log = events \o <<"request", "send">>]))

\* the requests in the transport's hands after caller i's step
Handed(i, call) ==
  IF call.pc = "sent" THEN wire \cup {[caller |-> i, req |-> call.req]} ELSE wire

Enter(i, result) ==
  /\ ~client.isNil
  /\ calls[i].pc = "idle"
  /\ \E call \in {result} :
       /\ calls' = [calls EXCEPT ![i] = call]
       /\ wire' = Handed(i, call)
  /\ UNCHANGED <<apiKey, client, panicked, qIn, qOut>>

GetList(i, via, params, opts) ==
  Enter(i, operation(calls[i], via, "GetList", params, opts,
                     addQueryOptions(<<"list">>, opts), <<"options">>))

GetUSDANutrientReport(i, via, params, opts) ==
  Enter(i, operation(calls[i], via, "GetUSDANutrientReport", params, opts,
                     addQueryOptions(<<"nutrients">>, opts), <<"options">>))

GetUSDAFoodsReportV2(i, via, params) ==
  Enter(i, operation(calls[i], via, "GetUSDAFoodsReportV2", params, NilOptions,
                     [path |-> <<"V2", "/", "reports">>, err |-> NoErr], << >>))

GetUSDASearch(i, via, params, opts) ==
  Enter(i, operation(calls[i], via, "GetUSDASearch", params, opts,
                     addQueryOptions(<<"search">>, opts), <<"options">>))

(* The request parameter values *)

ListParams(lt) == [type |-> "USDAListReqParams", v |-> [Lt |-> lt]]
NutrientsParams(fg, ndbno, nutrients, subset) ==
  [type |-> "USDANutrientsReqParams",
   v |-> [Fg |-> fg, Ndbno |-> ndbno, NutrientsID |-> nutrients, Subset |-> subset]]
FoodsParams(ndbno, type) ==
  [type |-> "USDAFoodsReqParams", v |-> [Ndbno |-> ndbno, Type |-> type]]
SearchParams(q, ds, fg) ==
  [type |-> "USDASearchReqParams", v |-> [Q |-> q, Ds |-> ds, Fg |-> fg]]

(* The facade *)

GetListByType(i, listType) ==
  GetList(i, "GetListByType", Pointer(ListParams(listType)),
          Options(1500, 0, <<"id">>))

GetNutrientsReport(i) ==
  GetUSDANutrientReport(i, "GetNutrientsReport",
    Pointer(NutrientsParams(Slice(<< <<"0300">> >>), << >>,
                            Slice(<< <<"306">>, <<"204">> >>), << >>)),
    Options(10, 0, <<"c">>))

GetFoodNutrientsReport(i, ndbno) ==
  GetUSDANutrientReport(i, "GetFoodNutrientsReport",
    Pointer(NutrientsParams(NilSlice, ndbno,
                            Slice(<< <<"306">>, <<"204">> >>), << >>)),
    Options(100, 0, <<"c">>))

GetBasicFoodReport(i, ndbno) ==
  GetUSDAFoodsReportV2(i, "GetBasicFoodReport",
    Pointer(FoodsParams(Slice(<<ndbno>>), <<"b">>)))

GetFoodNameSearch(i, name) ==
  GetUSDASearch(i, "GetFoodNameSearch", Pointer(SearchParams(name, << >>, << >>)),
                Options(100, 0, <<"n">>))

(* The environment: the caller's context and the transport *)

\* the caller's context is cancelled or passes its deadline
CtxFire(i, errs) ==
  /\ calls[i].pc # "returned"
  /\ calls[i].ctx = "live"
  /\ \E e \in errs : calls' = [calls EXCEPT ![i].ctx = e]
  /\ UNCHANGED <<apiKey, client, panicked, wire, qIn, qOut>>

\* httpClient.Do returns: an error and no response, or a response
Transport(i, outcomes) ==
  /\ calls[i].pc = "sent"
  /\ \E tr \in outcomes :
       calls' = [calls EXCEPT ![i].pc = "responded", ![i].tr = tr,
                              ![i].ctxAtResp = calls[i].ctx]
  /\ wire' = wire \ {[caller |-> i, req |-> calls[i].req]}
  /\ UNCHANGED <<apiKey, client, panicked, qIn, qOut>>

\* DoReturn with one destination shared by all callers
DoReturnShared(i) ==
  /\ calls[i].pc = "responded"
  /\ \E d \in {do(calls[i].ctx, calls[i].tr, ZeroValue(ResponseType(calls[i].op)))} :
       calls' = [j \in Callers |->
                  IF j = i
                  THEN [calls[i] EXCEPT !.pc = "returned", !.resp = d.resp,
                                        !.closes = @ + d.closes,
                                        !.ret = Return(d.v, d.err),
                                        !.log = @ \o d.events \o <<"return">>]
                  ELSE [calls[j] EXCEPT !.ret = Return(d.v, d.err)]]
  /\ UNCHANGED <<apiKey, client, panicked, wire, qIn, qOut>>

\* the rest of do, and the operation's return of its value and do's error
DoReturn(i) ==
  /\ calls[i].pc = "responded"
  /\ \E d \in {do(calls[i].ctx, calls[i].tr, ZeroValue(ResponseType(calls[i].op)))} :
       calls' = [calls EXCEPT ![i].pc = "returned", ![i].resp = d.resp,
                               ![i].closes = @ + d.closes,
                               ![i].ret = Return(d.v, d.err),
                               ![i].log = @ \o d.events \o <<"return">>]
  /\ UNCHANGED <<apiKey, client, panicked, wire, qIn, qOut>>

\* the caller is done with the result and may call again
Finish(i) ==
  /\ calls[i].pc = "returned"
  /\ calls' = [calls EXCEPT ![i] = IdleCall("live")]
  /\ UNCHANGED <<apiKey, client, panicked, wire, qIn, qOut>>

-----------------------------------------------------------------------------
(* The values the callers and the environment choose from *)

DemoKey == <<"demo123">>

\* an unreserved character, and characters with a role in a URL
KeyChars == {"k", "@", " ", "/", "%"}
Keys == SeqsUpTo(KeyChars, MaxKeyLen)

Transports == {"nil", "custom"}

\* strings: empty, plain, with a character JSON escapes, with an invalid byte
ParamStrings == {<< >>, <<"apple">>, <<"<">>, <<"xFF">>}
PlainStrings == {<< >>, <<"apple">>}
ParamSlices == {NilSlice, Slice(<< >>), Slice(<< <<"306">>, <<"204">> >>)}

ListParamValues ==
  {NilPointer("USDAListReqParams")}
  \cup {Pointer(ListParams(lt)) : lt \in ParamStrings}
NutrientsParamValues ==
  {NilPointer("USDANutrientsReqParams")}
  \cup {Pointer(NutrientsParams(fg, nd, ids, sub)) :
          fg \in ParamSlices, nd \in ParamStrings, ids \in ParamSlices,
          sub \in PlainStrings}
FoodsParamValues ==
  {NilPointer("USDAFoodsReqParams")}
  \cup {Pointer(FoodsParams(nd, t)) : nd \in ParamSlices, t \in ParamStrings}
SearchParamValues ==
  {NilPointer("USDASearchReqParams")}
  \cup {Pointer(SearchParams(q, ds, fg)) :
          q \in ParamStrings, ds \in PlainStrings, fg \in PlainStrings}

OptionSamples ==
  {NilOptions, Options(0, 0, << >>), Options(10, 0, <<"c">>),
   Options(25, 50, <<"n", " ">>)}

SortChars == {"n", "&", " "}
IntSamples == {-1, 0, 10, 1500}
OptionValues ==
  {NilOptions}
  \cup {Options(m, o, srt) : m \in IntSamples, o \in {0, 7, 50},
                             srt \in SeqsUpTo(SortChars, MaxSortLen)}

\* the endpoint paths, and a text that is no URL reference
QueryPaths ==
  {<<"list">>, <<"nutrients">>, <<"search">>, <<"V2", "/", "reports">>,
   <<":", "list">>}

ContextErrors == {"context.Canceled", "context.DeadlineExceeded"}
TransportErrors == {"dial tcp: connection refused", "Post: context canceled"}

Failed(e) == [isNil |-> FALSE, err |-> e, resp |-> NoResponse]
Responded(body) ==
  [isNil |-> FALSE, err |-> NoErr, resp |-> [isNil |-> FALSE, Body |-> body]]

Object(members) == [kind |-> "object", members |-> members]
Member(key, value) == [key |-> key, value |-> value]
Good(f) == IF f.kind = "int" THEN JNumber(5) ELSE JString(<<"x">>)
Bad(f) == IF f.kind = "int" THEN JString(<<"x">>) ELSE JNumber(5)

\* response bodies for a response type: no body, no JSON, null, and objects
\* whose members fit their fields or do not
ResponseBodies(type) ==
  LET f1 == Fields(type)[1]
      f2 == Fields(type)[2]
  IN {[kind |-> "empty"], [kind |-> "invalid"], [kind |-> "null"],
      Object(<< >>),
      Object(<<Member(f1.key, Good(f1))>>),
      Object(<<Member(f1.key, Good(f1)), Member(f2.key, Good(f2))>>),
      Object(<<Member(f1.key, Good(f1)), Member(f2.key, Bad(f2))>>),
      Object(<<Member(f1.key, Bad(f1)), Member(f2.key, Good(f2))>>)}

TransportOutcomes(op) ==
  {Failed(e) : e \in TransportErrors}
  \cup {Responded(b) : b \in ResponseBodies(ResponseType(op))}

\* under concurrency: one failure and one well-formed response
FewOutcomes(op) ==
  LET f1 == Fields(ResponseType(op))[1]
  IN {Failed("dial tcp: connection refused"),
      Responded(Object(<<Member(f1.key, Good(f1))>>))}

-----------------------------------------------------------------------------
(* Specifications *)

NoResult == [isNil |-> TRUE]

\* the program calls NewClient(apiKey, httpClient)
Construct(httpClient) ==
  /\ client.isNil /\ ~panicked
  /\ \E r \in {NewClient(apiKey, httpClient)} :
        /\ client' = r.client
        /\ panicked' = r.panic
        /\ wire' = wire \cup r.sent
  /\ UNCHANGED <<apiKey, calls, qIn, qOut>>

\* addQueryOptions is applied to the arguments
ApplyAddQueryOptions ==
  /\ qOut.isNil
  /\ \E r \in {addQueryOptions(qIn.path, qIn.opts)} :
       qOut' = [isNil |-> FALSE, path |-> r.path, err |-> r.err]
  /\ UNCHANGED <<apiKey, client, panicked, wire, calls, qIn>>

\* Spec: a client built from the demo key, one caller making one call after
\* another, each of the operations and facade calls with each parameter value
Init ==
  /\ apiKey = DemoKey
  /\ client = NewClient(DemoKey, "nil").client
  /\ panicked = FALSE
  /\ wire = {}
  /\ calls = [i \in Callers |-> IdleCall("live")]
  /\ qIn = [path |-> <<"list">>, opts |-> NilOptions]
  /\ qOut = NoResult

Next ==
  \E i \in {1} :
    \/ \E p \in ListParamValues, o \in OptionSamples : GetList(i, "GetList", p, o)
    \/ \E p \in NutrientsParamValues, o \in OptionSamples :
         GetUSDANutrientReport(i, "GetUSDANutrientReport", p, o)
    \/ \E p \in FoodsParamValues : GetUSDAFoodsReportV2(i, "GetUSDAFoodsReportV2", p)
    \/ \E p \in SearchParamValues, o \in OptionSamples :
         GetUSDASearch(i, "GetUSDASearch", p, o)
    \/ \E lt \in PlainStrings : GetListByType(i, lt)
    \/ GetNutrientsReport(i)
    \/ \E nd \in PlainStrings : GetFoodNutrientsReport(i, nd)
    \/ \E nd \in PlainStrings : GetBasicFoodReport(i, nd)
    \/ \E name \in PlainStrings : GetFoodNameSearch(i, name)
    \/ CtxFire(i, ContextErrors)
    \/ Transport(i, TransportOutcomes(calls[i].op))
    \/ DoReturn(i)
    \/ Finish(i)

Spec == Init /\ [][Next]_vars

\* SpecConc: the callers share the handle and call the facade concurrently
NextConc ==
  \E i \in Callers :
    \/ \E lt \in {<<"f">>} : GetListByType(i, lt)
    \/ GetNutrientsReport(i)
    \/ \E nd \in {<<"01009">>} : GetFoodNutrientsReport(i, nd)
    \/ \E nd \in {<<"01009">>} : GetBasicFoodReport(i, nd)
    \/ \E name \in {<<"apple">>} : GetFoodNameSearch(i, name)
    \/ CtxFire(i, {"context.Canceled"})
    \/ Transport(i, FewOutcomes(calls[i].op))
    \/ DoReturn(i)

SpecConc == Init /\ [][NextConc]_vars

\* SpecNew: construction from every access key
InitNew ==
  /\ apiKey \in Keys
  /\ client = NoClient
  /\ panicked = FALSE
  /\ wire = {}
  /\ calls = [i \in Callers |-> IdleCall("live")]
  /\ qIn = [path |-> <<"list">>, opts |-> NilOptions]
  /\ qOut = NoResult

NextNew == \E hc \in Transports : Construct(hc)

SpecNew == InitNew /\ [][NextNew]_vars

\* SpecQuery: addQueryOptions applied to every path and options value
InitQuery ==
  /\ apiKey = DemoKey
  /\ client = NoClient
  /\ panicked = FALSE
  /\ wire = {}
  /\ calls = [i \in Callers |-> IdleCall("live")]
  /\ qIn \in [path : QueryPaths, opts : OptionValues]
  /\ qOut = NoResult

NextQuery == ApplyAddQueryOptions

SpecQuery == InitQuery /\ [][NextQuery]_vars

-----------------------------------------------------------------------------
(* Properties *)

Range(s) == {s[k] : k \in 1..Len(s)}

Returned(c) == c.pc = "returned"
TransportFailed(c) == ~c.tr.isNil /\ c.tr.err # NoErr
TransportResponded(c) == ~c.tr.isNil /\ c.tr.err = NoErr

DecodeErrors == {"io.EOF", "json.SyntaxError", "json.UnmarshalTypeError"}

\* C1: when the transport call returns an error, do returns the context's
\* error if the context is done and the transport's error otherwise, with no
\* response and without decoding.
C1_TransportErrorSurfaced ==
  \A i \in Callers :
    LET c == calls[i]
    IN Returned(c) /\ TransportFailed(c) =>
         /\ c.ret.err = (IF c.ctx # "live" THEN c.ctx ELSE c.tr.err)
         /\ c.resp.isNil
         /\ "decode" \notin Range(c.log)

\* the context passes its deadline after the transport has failed and before
\* do looks at it
C1_Witness ==
  \E i \in Callers :
    /\ Returned(calls[i]) /\ TransportFailed(calls[i])
    /\ calls[i].ctxAtResp = "live"
    /\ calls[i].ctx = "context.DeadlineExceeded"
    /\ calls[i].ret.err = "context.DeadlineExceeded"

\* C2 as stated: a call whose context was cancelled before the transport
\* responded returns the cancellation error, whatever the transport reports.
C2_CancelledAlwaysWins ==
  \A i \in Callers :
    LET c == calls[i]
    IN Returned(c) /\ ~c.tr.isNil /\ c.ctxAtResp # "live" => c.ret.err = c.ctxAtResp

\* C2 amended: a call whose context was cancelled before the transport
\* responded returns the cancellation error and the zero value when the
\* transport reports a failure; when the transport delivers a response all
\* the same, the call returns what decoding that response gives.
C2_CancelledBeatsTransportError ==
  \A i \in Callers :
    LET c == calls[i]
    IN Returned(c) /\ ~c.tr.isNil /\ c.ctxAtResp # "live" =>
         IF c.tr.err # NoErr
         THEN /\ c.ret.err = c.ctxAtResp
              /\ c.ret.val = ZeroValue(ResponseType(c.op))
         ELSE /\ c.ret.err \in DecodeErrors \cup {NoErr}
              /\ "decode" \in Range(c.log)

C2_Witness ==
  \E i \in Callers :
    /\ Returned(calls[i])
    /\ calls[i].ctxAtResp = "context.Canceled"
    /\ TransportFailed(calls[i])
    /\ calls[i].tr.err = "dial tcp: connection refused"
    /\ calls[i].ret.err = "context.Canceled"

\* C3: an operation call returns a nil error, or a non-nil error with the
\* zero value of its response type.
C3_NoPartialResult ==
  \A i \in Callers :
    LET c == calls[i]
    IN Returned(c) =>
         \/ c.ret.err = NoErr
         \/ c.ret.val = ZeroValue(ResponseType(c.op))

\* the text of the base URL of a client built from the demo key
BaseText ==
  <<"https", ":", "/", "/", "demo123", "@", "api.nal.usda.gov", "/", "ndb", "/">>

Facades ==
  {"GetListByType", "GetNutrientsReport", "GetFoodNutrientsReport",
   "GetBasicFoodReport", "GetFoodNameSearch"}

\* the endpoints table as the claim reads it: max, offset=0 and sort
ClaimedTarget(via) ==
  CASE via = "GetListByType" ->
         <<"list", "?", "max", "=", "1", "5", "0", "0", "&", "offset", "=", "0",
           "&", "sort", "=", "id">>
    [] via = "GetNutrientsReport" ->
         <<"nutrients", "?", "max", "=", "1", "0", "&", "offset", "=", "0",
           "&", "sort", "=", "c">>
    [] via = "GetFoodNutrientsReport" ->
         <<"nutrients", "?", "max", "=", "1", "0", "0", "&", "offset", "=", "0",
           "&", "sort", "=", "c">>
    [] via = "GetFoodNameSearch" ->
         <<"search", "?", "max", "=", "1", "0", "0", "&", "offset", "=", "0",
           "&", "sort", "=", "n">>
    [] via = "GetBasicFoodReport" -> <<"V2", "/", "reports">>

\* the same table with the offset, which is 0, left out
TargetWithoutOffset(via) ==
  CASE via = "GetListByType" ->
         <<"list", "?", "max", "=", "1", "5", "0", "0", "&", "sort", "=", "id">>
    [] via = "GetNutrientsReport" ->
         <<"nutrients", "?", "max", "=", "1", "0", "&", "sort", "=", "c">>
    [] via = "GetFoodNutrientsReport" ->
         <<"nutrients", "?", "max", "=", "1", "0", "0", "&", "sort", "=", "c">>
    [] via = "GetFoodNameSearch" ->
         <<"search", "?", "max", "=", "1", "0", "0", "&", "sort", "=", "n">>
    [] via = "GetBasicFoodReport" -> <<"V2", "/", "reports">>

\* C4 as stated: each facade call sends its request to the path and query of
\* the endpoints table, the query holding max, offset=0 and sort.
C4_FacadeTargetsWithOffset ==
  \A i \in Callers :
    LET c == calls[i]
    IN c.via \in Facades /\ ~c.req.isNil =>
         c.req.URL = BaseText \o ClaimedTarget(c.via)

\* C4 amended: each facade call sends its request to the path of the
\* endpoints table with the query max=..&sort=..; the offset, being 0, is
\* left out of the query; GetBasicFoodReport sends to V2/reports with no
\* query string.
C4_FacadeTargets ==
  \A i \in Callers :
    LET c == calls[i]
    IN c.via \in Facades /\ ~c.req.isNil =>
         c.req.URL = BaseText \o TargetWithoutOffset(c.via)

C4_Witness ==
  \E i \in Callers :
    /\ calls[i].via = "GetFoodNameSearch"
    /\ calls[i].pc = "sent"
    /\ [caller |-> i, req |-> calls[i].req] \in wire
    /\ IndexOf(calls[i].req.URL, "?") > 0

\* the fields of an options value that are not at their default
NonDefault(opts) ==
  IF opts.isNil THEN {}
  ELSE {k \in {"max", "offset", "sort"} :
          \/ k = "max" /\ opts.Max # 0
          \/ k = "offset" /\ opts.Offset # 0
          \/ k = "sort" /\ opts.Sort # << >>}

\* a path of words and "/" that url.Parse accepts
ValidPath(p) == p # << >> /\ p[1] # ":" /\ \A k \in 1..Len(p) : IsWord(p[k]) \/ p[k] = "/"

\* C5: for a valid path, addQueryOptions returns the path followed by a
\* query string whose keys are exactly the non-default fields, each with its
\* value; with nil options or all fields default it returns the path as is.
C5_QueryOptions ==
  ~qOut.isNil /\ ValidPath(qIn.path) =>
    LET nd == NonDefault(qIn.opts)
        n == Len(qIn.path)
        pairs == ParseQuery(Drop(qOut.path, n + 1))
    IN /\ qOut.err = NoErr
       /\ IF nd = {} THEN qOut.path = qIn.path
          ELSE /\ Take(qOut.path, n) = qIn.path
               /\ qOut.path[n + 1] = "?"
               /\ Len(pairs) = Cardinality(nd)
               /\ {pairs[k].key : k \in 1..Len(pairs)} = {<<key>> : key \in nd}
               /\ \A k \in 1..Len(pairs) :
                    /\ pairs[k].key = <<"max">> => Atoi(pairs[k].value) = qIn.opts.Max
                    /\ pairs[k].key = <<"offset">> =>
                         Atoi(pairs[k].value) = qIn.opts.Offset
                    /\ pairs[k].key = <<"sort">> => pairs[k].value = qIn.opts.Sort

\* a sort key that needs escaping, a negative size, a default offset
C5_Witness ==
  /\ ~qOut.isNil
  /\ qIn.path = <<"nutrients">>
  /\ ~qIn.opts.isNil
  /\ qIn.opts.Max = -1 /\ qIn.opts.Offset = 0 /\ qIn.opts.Sort = <<"&", " ">>
  /\ qOut.path = <<"nutrients", "?", "max", "=", "-", "1", "&", "sort", "=", "%26", "+">>

\* the endpoint path of an operation
EndpointPath(op) ==
  CASE op = "GetList" -> <<"list">>
    [] op = "GetUSDANutrientReport" -> <<"nutrients">>
    [] op = "GetUSDAFoodsReportV2" -> <<"V2", "/", "reports">>
    [] op = "GetUSDASearch" -> <<"search">>

\* method, content type and target of the request of a call
RequestLine(c) ==
  LET rest == Drop(c.req.URL, Len(BaseText))
      path == EndpointPath(c.op)
  IN /\ c.req.Method = "POST"
     /\ c.req.Header["Content-Type"] = "application/json"
     /\ Take(c.req.URL, Len(BaseText)) = BaseText
     /\ Take(rest, Len(path)) = path
     /\ Len(rest) = Len(path) \/ rest[Len(path) + 1] = "?"
     /\ NonDefault(c.opts) = {} <=> Len(rest) = Len(path)

\* the body of the request of a call, parsed back into the parameter type
ParsedBack(c) == unmarshal(c.req.Body, ZeroValue(c.params.type))

\* C6 as stated: the request has method POST, content type application/json,
\* the base URL joined with the endpoint path as target, and a body that
\* parses back to the parameter structure passed in.
C6_BodyRoundTripsExactly ==
  \A i \in Callers :
    LET c == calls[i]
    IN ~c.req.isNil =>
         /\ RequestLine(c)
         /\ ~c.params.isNil =>
              /\ ParsedBack(c).err = NoErr
              /\ ParsedBack(c).val.v = c.params.v

\* what a string reads back as: an invalid byte as U+FFFD
ReadBackString(str) ==
  [k \in 1..Len(str) |-> IF str[k] = "xFF" THEN "U+FFFD" ELSE str[k]]

\* what a field reads back as: an empty list in an omitempty field as nil
ReadBackField(f, x) ==
  IF f.kind = "string" THEN ReadBackString(x)
  ELSE IF x.isNil \/ (f.omitempty /\ x.elems = << >>) THEN NilSlice
  ELSE Slice([k \in 1..Len(x.elems) |-> ReadBackString(x.elems[k])])

\* C6 amended: the request has method POST, content type application/json,
\* the base URL joined with the endpoint path as target, and a body that
\* parses back to the parameter structure passed in, except that an empty
\* non-nil list in an omitempty field (Fg of USDANutrientsReqParams) comes
\* back as nil and an invalid UTF-8 byte of a string as U+FFFD; a nil
\* parameter pointer is sent as the JSON null.
C6_BodyRoundTrips ==
  \A i \in Callers :
    LET c == calls[i]
    IN ~c.req.isNil =>
         /\ RequestLine(c)
         /\ ParsedBack(c).err = NoErr
         /\ c.params.isNil => c.req.Body = [kind |-> "null"]
         /\ ~c.params.isNil =>
              \A n \in FieldNames(c.params.type) :
                ParsedBack(c).val.v[n]
                  = ReadBackField(FieldOf(c.params.type, n), c.params.v[n])

\* a nutrient report request with an empty food-group list and ids
C6_Witness ==
  \E i \in Callers :
    /\ calls[i].pc = "sent"
    /\ calls[i].op = "GetUSDANutrientReport"
    /\ ~calls[i].params.isNil
    /\ calls[i].params.v.Fg = Slice(<< >>)
    /\ calls[i].params.v.NutrientsID = Slice(<< >>)
    /\ calls[i].params.v.Ndbno = <<"<">>
    /\ ParsedBack(calls[i]).val.v.NutrientsID = Slice(<< >>)
    /\ ParsedBack(calls[i]).val.v.Ndbno = <<"<">>

\* C7: when the transport returns a response its body is closed exactly
\* once, after the decode attempt and before do returns, whether or not
\* decoding succeeded; no body is open once a call has returned.
C7_BodyClosedOnce ==
  \A i \in Callers :
    LET c == calls[i]
        n == Len(c.log)
    IN /\ Returned(c) /\ TransportResponded(c) =>
            /\ c.closes = 1
            /\ ~c.resp.isNil
            /\ n >= 3
            /\ c.log[n - 2] = "decode" /\ c.log[n - 1] = "close" /\ c.log[n] = "return"
            /\ Cardinality({k \in 1..n : c.log[k] = "close"}) = 1
       /\ ~TransportResponded(c) => c.closes = 0
       /\ c.pc = "responded" => c.closes = 0

\* a response whose body is no JSON: decoding fails, the body is closed
C7_Witness ==
  \E i \in Callers :
    /\ Returned(calls[i]) /\ TransportResponded(calls[i])
    /\ calls[i].ret.err = "json.SyntaxError"
    /\ calls[i].closes = 1

\* characters RFC 3986 does not allow unescaped in the user-info of a URL
InvalidInUserinfo == {"@", " ", "/"}

Constructed == panicked \/ ~client.isNil

\* C8: NewClient panics, returning no client, whenever the access key holds
\* a character that is invalid in URL user-info (the key "@" for one), and
\* construction makes no transport call.
C8_InvalidKeyPanics ==
  /\ wire = {}
  /\ Constructed /\ (\E k \in 1..Len(apiKey) : apiKey[k] \in InvalidInUserinfo) =>
       panicked /\ client.isNil

\* C9: no call changes the client handle, a step of one caller leaves every
\* other caller's call as it was, and the request a call holds is the one
\* built from its own parameters and carries its own context.
C9_HandleImmutable ==
  /\ [][/\ client' = client
        /\ \A i, j \in Callers :
             i # j => calls'[i] = calls[i] \/ calls'[j] = calls[j]]_vars
  /\ [](\A i \in Callers :
          LET c == calls[i]
          IN /\ ~c.req.isNil =>
                  /\ c.req.Body = marshal(c.params)
                  /\ c.req.ctx = "ctx"
                  /\ Take(c.req.URL, Len(BaseText)) = BaseText
             /\ c.pc = "sent" <=> [caller |-> i, req |-> c.req] \in wire
             /\ c.ret.isNil <=> ~Returned(c))

\* two calls in flight on the one handle, to different endpoints
C9_Witness ==
  \E i, j \in Callers :
    /\ i # j
    /\ calls[i].pc = "sent" /\ calls[j].pc = "sent"
    /\ calls[i].req.URL # calls[j].req.URL
    /\ Cardinality(wire) = 2

StepOrder == <<"options", "request", "send", "decode", "close", "return">>
Rank(e) == CHOOSE k \in 1..Len(StepOrder) : StepOrder[k] = e
InOrder(log) ==
  \A a, b \in 1..Len(log) : a < b => Rank(log[a]) < Rank(log[b])

\* C10 as stated: a failed transport call is not followed by a decode, and
\* its error is returned to the caller unchanged.
C10_TransportErrorVerbatim ==
  \A i \in Callers :
    LET c == calls[i]
    IN Returned(c) /\ TransportFailed(c) =>
         /\ "decode" \notin Range(c.log)
         /\ c.ret.err = c.tr.err

\* C10 amended: a call takes its steps in the order options, request, send,
\* decode, each at most once (no retry); without a send an error is
\* returned and the transport was never called; a failed transport call is
\* not followed by a decode; the error of the step that failed is returned
\* unchanged, except that the error of a failed transport call is replaced
\* by the context's error when the context is done.
C10_StepsInOrder ==
  \A i \in Callers :
    LET c == calls[i]
        steps == Range(c.log)
    IN /\ InOrder(c.log)
       /\ Returned(c) =>
            /\ c.log[Len(c.log)] = "return"
            /\ "send" \notin steps => c.tr.isNil /\ c.ret.err # NoErr
            /\ "send" \in steps =>
                 /\ ~c.tr.isNil
                 /\ "request" \in steps
                 /\ c.op # "GetUSDAFoodsReportV2" => "options" \in steps
            /\ TransportFailed(c) =>
                 /\ "decode" \notin steps
                 /\ c.ret.err = (IF c.ctx = "live" THEN c.tr.err ELSE c.ctx)
            /\ TransportResponded(c) =>
                 /\ "decode" \in steps
                 /\ c.ret.err
                      = unmarshal(c.tr.resp.Body, ZeroValue(ResponseType(c.op))).err

\* the transport fails while the context is live: its error comes back
C10_Witness ==
  \E i \in Callers :
    /\ Returned(calls[i]) /\ TransportFailed(calls[i])
    /\ calls[i].ctx = "live"
    /\ calls[i].ret.err = "Post: context canceled"
    /\ calls[i].log = <<"options", "request", "send", "return">>

====
